---------------------------- MODULE Spec2Model ----------------------------
(***************************************************************************)
(* Model of the questionnaire assistant's retrieval and answer-synthesis   *)
(* pipeline: SimpleEmbeddings (src/api/embeddings.py), KnowledgeBase       *)
(* (src/backend/knowledge_base.py) and AnswerGenerator                     *)
(* (src/backend/answer_generator.py).                                      *)
(*                                                                         *)
(* Numbers.  A float vector is kept exactly as [num, den2], standing for   *)
(* the vector num / sqrt(den2): the encoder's normalisation divides whole  *)
(* counts by the square root of a whole number.  A cosine similarity is    *)
(* kept in fixed point, in units of 1/SimScale.  A text is the sequence of *)
(* word tokens that re.findall(r"\b\w+\b", text.lower()) yields.           *)
(***************************************************************************)
EXTENDS Integers, Sequences, FiniteSets, TLC

(***************************************************************************)
(* Bounds of the model                                                     *)
(***************************************************************************)
\* the dim argument of generate_embedding the model is evaluated at
Dim == 4
\* rows the table holds at most when searched directly
MaxRows == 3
\* rows the table holds at most when answers are generated from it
MaxKnowledge == 2
\* largest top_k a direct search_similar call is made with
MaxTopK == 3
\* questions in one fill_questionnaire call
MaxBatch == 2
\* resolution of a similarity score: units of 1/SimScale
SimScale == 1000
\* words in a text, features in a reply, given to an encoder on its own
MaxTextLen == 2
\* rows the table holds at most while rows are also updated and deleted
MaxStoreRows == 2
\* largest id given to a row while rows are also updated and deleted
MaxIds == 3
\* connections left open at most
MaxOpen == 2
\* rows the table holds at most when more than top_k candidates are retrieved
MaxPool == 6

(***************************************************************************)
(* Program constants                                                       *)
(***************************************************************************)
TopK == 5
DefaultConfidence == 50
ReviewThreshold == 70

\* Python's None, SQL's NULL
None == [none |-> TRUE]

(***************************************************************************)
(* SimpleEmbeddings                                                        *)
(***************************************************************************)
\* the words of the model's texts
Words == {"what", "is", "your", "data", "encryption", "backup", "ip"}

\* the words of Words that are in generate_embedding's stop_words set
stop_words == {"what", "is", "your"}

\* int(h[i:i+2], 16) for i = 0, 2, 4, 6 of h = md5(word).hexdigest()
Md5Pairs(word) ==
    CASE word = "what"       -> <<74, 32, 40, 236>>
      [] word = "is"         -> <<162, 165, 81, 166>>
      [] word = "your"       -> <<98, 204, 11, 78>>
      [] word = "data"       -> <<141, 119, 127, 56>>
      [] word = "encryption" -> <<91, 223, 116, 145>>
      [] word = "backup"     -> <<64, 32, 81, 244>>
      [] word = "ip"         -> <<149, 123, 82, 123>>
      [] word = ""           -> <<212, 29, 140, 217>>

\* len(w) of a word
WordLen(word) ==
    CASE word = "what"       -> 4
      [] word = "is"         -> 2
      [] word = "your"       -> 4
      [] word = "data"       -> 4
      [] word = "encryption" -> 10
      [] word = "backup"     -> 6
      [] word = "ip"         -> 2
      [] word = ""           -> 0

\* vector[pos] += 1.0
Bump(vector, pos) == [vector EXCEPT ![pos + 1] = @ + 1]

\* the inner loop: for i in range(0, 2 * npairs, 2): vector[int(h[i:i+2],16) % dim] += 1.0
RECURSIVE AddPairs(_, _, _, _)
AddPairs(vector, pairs, npairs, dim) ==
    IF npairs = 0 THEN vector
    ELSE Bump(AddPairs(vector, pairs, npairs - 1, dim), pairs[npairs] % dim)

\* the outer loop over the surviving words
RECURSIVE AddWords(_, _, _, _)
AddWords(vector, words, npairs, dim) ==
    IF words = <<>> THEN vector
    ELSE AddWords(AddPairs(vector, Md5Pairs(Head(words)), npairs, dim),
                  Tail(words), npairs, dim)

RECURSIVE SumSq(_)
SumSq(v) == IF v = <<>> THEN 0 ELSE Head(v) * Head(v) + SumSq(Tail(v))

RECURSIVE Dot(_, _)
Dot(a, b) == IF a = <<>> THEN 0 ELSE Head(a) * Head(b) + Dot(Tail(a), Tail(b))

RECURSIVE Sum(_)
Sum(v) == IF v = <<>> THEN 0 ELSE Head(v) + Sum(Tail(v))

\* a normalisation dividing by the sum of the counts instead of the magnitude
Normalize_BySum(counts) ==
    IF Sum(counts) > 0
    THEN [num |-> counts, den2 |-> Sum(counts) * Sum(counts)]
    ELSE [num |-> counts, den2 |-> 1]

\* magnitude = sum(v*v) ** 0.5; if magnitude > 0: vector = [v / magnitude ...]
Normalize(counts) ==
    IF SumSq(counts) > 0
    THEN [num |-> counts, den2 |-> SumSq(counts)]
    ELSE [num |-> counts, den2 |-> 1]

\* a filter that drops nothing
Surviving_KeepAll(words) == words

\* words = [w for w in words if w not in stop_words and len(w) > 2]
Surviving(words) ==
    SelectSeq(words, LAMBDA w : w \notin stop_words /\ WordLen(w) > 2)

\* a generate_embedding that bumps 2 positions for a word
generate_embedding_TwoPositions(text, dim) ==
    Normalize(AddWords([i \in 1..dim |-> 0], Surviving(text), 2, dim))

\* SimpleEmbeddings.generate_embedding(text, dim)
generate_embedding(text, dim) ==
    Normalize(AddWords([i \in 1..dim |-> 0], Surviving(text), 4, dim))

(***************************************************************************)
(* EmbeddingsGenerator                                                     *)
(***************************************************************************)
\* EmbeddingsGenerator._features_to_vector(features, dim): every feature is
\* hashed whole, range(0, min(len(h), 8), 2) gives 4 positions
features_to_vector(features, dim) ==
    Normalize(AddWords([i \in 1..dim |-> 0], features, 4, dim))

\* EmbeddingsGenerator._simple_embedding(text, dim): every word of the text,
\* range(0, 4, 2) gives 2 positions
simple_embedding(text, dim) ==
    Normalize(AddWords([i \in 1..dim |-> 0], text, 2, dim))

\* One piece of a reply between two commas: a feature word as the service
\* wrote it, with or without blanks around it and capitals in it
Piece(word, blanks, capitals) == [word |-> word, blanks |-> blanks, capitals |-> capitals]

\* f.strip().lower()
StripLower(piece) == piece.word

\* features = [f.strip().lower() for f in features_text.split(",")], the
\* reply being the sequence of its pieces ("" splits into one empty piece)
Features(features_text) == [i \in DOMAIN features_text |-> StripLower(features_text[i])]

\* EmbeddingsGenerator.generate_embedding(text) with the cache as it is and
\* the service behaving as svc: the vector returned, the cache afterwards
\* and whether client.messages.create was called
GenerateEmbeddingOutcome(cache, text, svc) ==
    IF text \in DOMAIN cache
    THEN [result |-> cache[text], cache |-> cache, called |-> FALSE]
    ELSE IF svc.kind = "text"
         THEN LET embedding == features_to_vector(Features(svc.text), Dim)
              IN  [result |-> embedding,
                   cache |-> (text :> embedding) @@ cache,
                   called |-> TRUE]
         ELSE [result |-> simple_embedding(text, Dim), cache |-> cache, called |-> TRUE]

(***************************************************************************)
(* KnowledgeBase                                                           *)
(***************************************************************************)
\* Python's truth value of an embedding argument: None and [] are false
Truthy(embedding) == embedding # None /\ embedding.num # <<>>

\* json.dumps(embedding): the text stored in the embedding column
JsonDumps(embedding) == [json |-> embedding]

\* json.loads(text) of an embedding column
JsonLoads(text) == text.json

\* embedding_json = json.dumps(embedding) if embedding else None
EmbeddingColumn(embedding) ==
    IF Truthy(embedding) THEN JsonDumps(embedding) ELSE None

\* the row INSERT INTO qa_pairs writes, under the AUTOINCREMENT id
NewRow(id, question, answer, source_file, category, embedding) ==
    [id |-> id, question |-> question, answer |-> answer,
     source_file |-> source_file, category |-> category,
     embedding |-> EmbeddingColumn(embedding)]

\* embedding=json.loads(row[5]) if row[5] else None
RowToStoredQA(row) ==
    [id |-> row.id, question |-> row.question, answer |-> row.answer,
     source_file |-> row.source_file, category |-> row.category,
     embedding |-> IF row.embedding # None THEN JsonLoads(row.embedding) ELSE None]

\* KnowledgeBase.get_all over the table's rows, in rowid order
get_all(rows) == [i \in 1..Len(rows) |-> RowToStoredQA(rows[i])]

\* np.linalg.norm(vec) > 0
NormPositive(vec) == SumSq(vec.num) > 0

\* floor(sqrt(n)), by bisection between lo and hi
RECURSIVE FloorRoot(_, _, _, _)
FloorRoot(n, d, lo, hi) ==
    \* the largest s in lo..hi with s*s*d <= n
    IF lo = hi THEN lo
    ELSE LET mid == (lo + hi + 1) \div 2
         IN  IF mid * mid * d <= n
             THEN FloorRoot(n, d, mid, hi)
             ELSE FloorRoot(n, d, lo, mid - 1)

\* float(np.dot(query_vec, qa_vec) / (query_norm * qa_norm)), in units of 1/SimScale
Similarity(query_vec, qa_vec) ==
    LET dot == Dot(query_vec.num, qa_vec.num)
        den == SumSq(query_vec.num) * SumSq(qa_vec.num)
    IN  FloorRoot(dot * dot * SimScale * SimScale, den, 0, SimScale)

\* similarities.sort(key=lambda x: x[1], reverse=True): list.sort is stable,
\* also with reverse=True
\* InsertDesc placing an element before the elements of equal score
RECURSIVE InsertDesc_Unstable(_, _)
InsertDesc_Unstable(sorted, x) ==
    IF sorted = <<>> THEN <<x>>
    ELSE IF Head(sorted)[2] > x[2]
         THEN <<Head(sorted)>> \o InsertDesc_Unstable(Tail(sorted), x)
         ELSE <<x>> \o sorted

RECURSIVE InsertDesc(_, _)
InsertDesc(sorted, x) ==
    IF sorted = <<>> THEN <<x>>
    ELSE IF Head(sorted)[2] >= x[2]
         THEN <<Head(sorted)>> \o InsertDesc(Tail(sorted), x)
         ELSE <<x>> \o sorted

RECURSIVE SortDesc(_)
SortDesc(s) ==
    IF s = <<>> THEN <<>>
    ELSE InsertDesc(SortDesc(SubSeq(s, 1, Len(s) - 1)), s[Len(s)])

\* qa_with_embeddings = [qa for qa in all_qa if qa.embedding]
QaWithEmbeddings(all_qa) == SelectSeq(all_qa, LAMBDA qa : Truthy(qa.embedding))

\* Similarities scoring every candidate, zero magnitudes included
RECURSIVE Similarities_NoSkip(_, _)
Similarities_NoSkip(query, qas) ==
    IF qas = <<>> THEN <<>>
    ELSE << <<Head(qas), Similarity(query, Head(qas).embedding)>> >>
         \o Similarities_NoSkip(query, Tail(qas))

\* the loop that scores each candidate whose norm and the query's are positive
RECURSIVE Similarities(_, _)
Similarities(query, qas) ==
    IF qas = <<>> THEN <<>>
    ELSE LET qa == Head(qas)
         IN  (IF NormPositive(query) /\ NormPositive(qa.embedding)
              THEN << <<qa, Similarity(query, qa.embedding)>> >>
              ELSE <<>>)
             \o Similarities(query, Tail(qas))

\* similarities[:top_k]
Take(s, n) == SubSeq(s, 1, IF n < Len(s) THEN n ELSE Len(s))

\* search_similar cutting the list to top_k before sorting it
search_similar_TruncateFirst(rows, query_embedding, top_k) ==
    LET qa_with_embeddings == QaWithEmbeddings(get_all(rows))
    IN  IF qa_with_embeddings = <<>> THEN <<>>
        ELSE SortDesc(Take(Similarities(query_embedding, qa_with_embeddings), top_k))

\* KnowledgeBase.search_similar(query_embedding, top_k) over the table's rows
search_similar(rows, query_embedding, top_k) ==
    LET qa_with_embeddings == QaWithEmbeddings(get_all(rows))
    IN  IF qa_with_embeddings = <<>> THEN <<>>
        ELSE Take(SortDesc(Similarities(query_embedding, qa_with_embeddings)), top_k)

(***************************************************************************)
(* AnswerGenerator                                                         *)
(***************************************************************************)
\* round-half-even of n / d, for n >= 0 and d > 0
RoundDiv(n, d) ==
    LET q == n \div d
        r == n % d
    IN  IF 2 * r > d \/ (2 * r = d /\ q % 2 = 1) THEN q + 1 ELSE q

\* round(similarity * 100, 1), in tenths of a percent
RoundPercent(similarity) == RoundDiv(similarity * 1000, SimScale)

\* int(x) of a percentage kept in tenths: truncation toward zero
IntOfTenths(t) == IF t >= 0 THEN t \div 10 ELSE -((-t) \div 10)

\* the context_pairs list generate_answer builds from the search result
RECURSIVE ContextPairs(_)
ContextPairs(similar) ==
    IF similar = <<>> THEN <<>>
    ELSE <<[question   |-> Head(similar)[1].question,
            answer     |-> Head(similar)[1].answer,
            source     |-> Head(similar)[1].source_file,
            similarity |-> RoundPercent(Head(similar)[2])]>>
         \o ContextPairs(Tail(similar))

GeneratedAnswer(question, suggested_answer, confidence, needs_review, source_questions, reasoning) ==
    [question |-> question, suggested_answer |-> suggested_answer,
     confidence |-> confidence, needs_review |-> needs_review,
     source_questions |-> source_questions, reasoning |-> reasoning]

Returned(value) == [kind |-> "return", value |-> value]
Raised(exc) == [kind |-> "raise", exc |-> exc]

\* the tokens of a reply text
LBrace == [t |-> "{"]
RBrace == [t |-> "}"]
Prose == [t |-> "prose"]
Garbage == [t |-> "garbage"]
Members(obj) == [t |-> "members", obj |-> obj]

\* json.loads(text): the dict of a text that is one JSON object, else JSONDecodeError
JsonLoadsObject(text) ==
    IF Len(text) = 2 /\ text[1] = LBrace /\ text[2] = RBrace
    THEN Returned([x \in {} |-> x])
    ELSE IF Len(text) = 3 /\ text[1] = LBrace /\ text[2].t = "members" /\ text[3] = RBrace
         THEN Returned(text[2].obj)
         ELSE Raised("JSONDecodeError")

\* re.search(r"\{.*\}", text, re.DOTALL): from the first "{" to the last "}" after it
BraceMatch(text) ==
    LET opens == {i \in 1..Len(text) : text[i] = LBrace}
        first == CHOOSE i \in opens : \A j \in opens : i <= j
        closes == {i \in 1..Len(text) : text[i] = RBrace /\ i > first}
        last == CHOOSE i \in closes : \A j \in closes : j <= i
    IN  IF opens = {} \/ closes = {} THEN None
        ELSE [group |-> SubSeq(text, first, last)]

\* the parse of result_text into result (lines 105-112)
ParseReply(result_text) ==
    IF result_text # <<>> /\ result_text[1] = LBrace
    THEN JsonLoadsObject(result_text)
    ELSE LET match == BraceMatch(result_text)
         IN  IF match # None THEN JsonLoadsObject(match.group)
             ELSE Raised("ValueError")

\* result.get(key, default)
DictGet(result, key, default) ==
    IF key \in DOMAIN result THEN result[key] ELSE default

\* int(s) of the model's strings
IntOfStr(s) == CASE s = "85" -> Returned(85) [] OTHER -> Raised("ValueError")

\* Python's int(x) of a parsed JSON value
PyInt(x) ==
    CASE x.t = "int"   -> Returned(x.v)
      [] x.t = "float" -> Returned(IntOfTenths(x.tenths))
      [] x.t = "str"   -> IntOfStr(x.s)
      [] x.t = "null"  -> Raised("TypeError")

\* what the except clause names: json.JSONDecodeError, ValueError, KeyError
Caught(exc) == exc \in {"JSONDecodeError", "ValueError", "KeyError"}

\* TryGenerate with the review threshold compared by <= instead of <
TryGenerate_ThresholdInclusive(question, similar_pairs, svc) ==
    IF svc.kind = "raise" THEN Raised(svc.exc)
    ELSE IF svc.kind = "no_content" THEN Raised("IndexError")
    ELSE LET parsed == ParseReply(svc.text)
         IN  IF parsed.kind = "raise" THEN parsed
             ELSE LET result == parsed.value
                      conf == PyInt(DictGet(result, "confidence",
                                            [t |-> "int", v |-> DefaultConfidence]))
                  IN  IF conf.kind = "raise" THEN conf
                      ELSE Returned(GeneratedAnswer(
                              question,
                              DictGet(result, "answer", ""),
                              conf.value,
                              DictGet(result, "needs_review", conf.value <= ReviewThreshold),
                              similar_pairs,
                              DictGet(result, "reasoning", "")))

\* the body of the try block of _generate_with_claude (lines 96-123)
TryGenerate(question, similar_pairs, svc) ==
    IF svc.kind = "raise" THEN Raised(svc.exc)
    ELSE IF svc.kind = "no_content" THEN Raised("IndexError")
    ELSE LET parsed == ParseReply(svc.text)
         IN  IF parsed.kind = "raise" THEN parsed
             ELSE LET result == parsed.value
                      conf == PyInt(DictGet(result, "confidence",
                                            [t |-> "int", v |-> DefaultConfidence]))
                  IN  IF conf.kind = "raise" THEN conf
                      ELSE Returned(GeneratedAnswer(
                              question,
                              DictGet(result, "answer", ""),
                              conf.value,
                              DictGet(result, "needs_review", conf.value < ReviewThreshold),
                              similar_pairs,
                              DictGet(result, "reasoning", "")))

\* Fallback taking the last candidate instead of the first
Fallback_LastCandidate(question, similar_pairs, exc) ==
    IF similar_pairs # <<>>
    THEN LET best_match == similar_pairs[Len(similar_pairs)]
         IN  GeneratedAnswer(question, best_match.answer,
                             IntOfTenths(best_match.similarity), TRUE, similar_pairs,
                             "Direct match from: " \o best_match.source)
    ELSE GeneratedAnswer(question, "", 0, TRUE, <<>>,
                         "Error generating answer: " \o exc)

\* the except branch (lines 125-145)
Fallback(question, similar_pairs, exc) ==
    IF similar_pairs # <<>>
    THEN LET best_match == similar_pairs[1]
         IN  GeneratedAnswer(question, best_match.answer,
                             IntOfTenths(best_match.similarity), TRUE, similar_pairs,
                             "Direct match from: " \o best_match.source)
    ELSE GeneratedAnswer(question, "", 0, TRUE, <<>>,
                         "Error generating answer: " \o exc)

\* AnswerGenerator._generate_with_claude
generate_with_claude(question, similar_pairs, svc) ==
    LET tried == TryGenerate(question, similar_pairs, svc)
    IN  IF tried.kind = "raise" /\ Caught(tried.exc)
        THEN Returned(Fallback(question, similar_pairs, tried.exc))
        ELSE tried

NoSimilar(question) ==
    GeneratedAnswer(question, "", 0, TRUE, <<>>,
                    "No similar questions found in knowledge base.")

\* generate_answer without the early return on an empty candidate list
generate_answer_NoEarlyReturn(rows, question, svc) ==
    generate_with_claude(question,
        ContextPairs(search_similar(rows, generate_embedding(question, Dim), TopK)), svc)

\* generate_answer searching with top_k = 3
generate_answer_TopThree(rows, question, svc) ==
    LET context_pairs == ContextPairs(search_similar(rows, generate_embedding(question, Dim), 3))
    IN  IF context_pairs = <<>> THEN Returned(NoSimilar(question))
        ELSE generate_with_claude(question, context_pairs, svc)

\* AnswerGenerator.generate_answer over the table's rows
generate_answer(rows, question, svc) ==
    LET query_embedding == generate_embedding(question, Dim)
        similar == search_similar(rows, query_embedding, TopK)
        context_pairs == ContextPairs(similar)
    IN  IF context_pairs = <<>> THEN Returned(NoSimilar(question))
        ELSE generate_with_claude(question, context_pairs, svc)

\* the prompt of _generate_with_claude, by what it is built from: the new
\* question and, for every similar pair, its similarity, question, answer
\* and source
Prompt(question, similar_pairs) == [question |-> question, context |-> similar_pairs]

\* a generate_answer that calls the service also when nothing was retrieved
ServicePrompts_Always(rows, question) ==
    << Prompt(question,
              ContextPairs(search_similar(rows, generate_embedding(question, Dim), TopK))) >>

\* the prompts generate_answer sends to client.messages.create for a
\* question: none when nothing was retrieved, else one
ServicePrompts(rows, question) ==
    LET query_embedding == generate_embedding(question, Dim)
        similar == search_similar(rows, query_embedding, TopK)
        context_pairs == ContextPairs(similar)
    IN  IF context_pairs = <<>> THEN <<>>
        ELSE << Prompt(question, context_pairs) >>

\* one entry of the list fill_questionnaire returns
ResultDict(question, answer) ==
    [question |-> question, suggested_answer |-> answer.suggested_answer,
     confidence |-> answer.confidence, needs_review |-> answer.needs_review,
     source_questions |-> answer.source_questions, reasoning |-> answer.reasoning]

(***************************************************************************)
(* Inputs                                                                  *)
(***************************************************************************)
\* questions asked and stored
Texts == { <<"what", "is", "your">>, <<"data">>, <<"your", "encryption">>, <<"backup">> }

\* the fingerprint of each text, as index.py and generate_answer compute it
TextEmbedding == [t \in Texts |-> generate_embedding(t, Dim)]

\* Q&A pairs posted to /api/knowledge/add or read from an uploaded document
QAInputs ==
    { [question |-> <<"data">>, answer |-> "Yes, AES-256", source_file |-> "audit.xlsx", category |-> ""],
      [question |-> <<"data">>, answer |-> "Daily", source_file |-> "manual", category |-> "ops"],
      [question |-> <<"your", "encryption">>, answer |-> "AES-256 at rest", source_file |-> "manual", category |-> ""],
      [question |-> <<"backup">>, answer |-> "Daily", source_file |-> "audit.xlsx", category |-> ""],
      [question |-> <<"what", "is", "your">>, answer |-> "N/A", source_file |-> "manual", category |-> ""] }

\* embedding arguments of a direct add_qa_pair call
EmptyList == [num |-> <<>>, den2 |-> 1]
EmbeddingArgs == {None, EmptyList} \cup {TextEmbedding[t] : t \in Texts}

\* embedding arguments of add_qa_pair and update_embedding: absent, an empty
\* list, an all-zero list, a fingerprint
StoreEmbeddingArgs ==
    {None, EmptyList, TextEmbedding[<<"what", "is", "your">>], TextEmbedding[<<"data">>]}

\* the lists of dicts add_qa_pairs_batch is called with: keys may be absent
Batches ==
    { << [question |-> <<"data">>, answer |-> "Daily"] >>,
      << [question |-> <<"backup">>, answer |-> "Weekly", source_file |-> "audit.xlsx",
          embedding |-> EmptyList],
         [question |-> <<"data">>, answer |-> "Daily", category |-> "ops",
          embedding |-> TextEmbedding[<<"data">>]] >> }

\* a list whose second dict has no "answer"
BadBatches ==
    { << [question |-> <<"data">>, answer |-> "Daily"], [question |-> <<"backup">>] >> }

\* bodies posted to /api/knowledge/add: QAInput asks for two strings only
PostedQAs ==
    { [question |-> <<"data">>, answer |-> "Yes, AES-256", source_file |-> "manual", category |-> ""],
      [question |-> <<"backup">>, answer |-> "", source_file |-> "manual", category |-> ""],
      [question |-> <<>>, answer |-> "Daily", source_file |-> "manual", category |-> ""] }

\* the question and answer cells of the rows of an uploaded spreadsheet
UploadedCells ==
    { << [q |-> <<"backup">>, a |-> "Weekly"], [q |-> <<"data">>, a |-> ""] >>,
      << [q |-> <<>>, a |-> "Daily"], [q |-> <<"data">>, a |-> "nan"] >>,
      << [q |-> <<"data">>, a |-> "Daily"] >> }

\* the operations of the Knowledge Store, and what a statement or the JSON
\* encoding raises between sqlite3.connect and conn.close
StoreOps ==
    {"add_qa_pair", "add_qa_pairs_batch", "update_embedding", "get_all", "get_by_source",
     "get_sources", "get_stats", "delete_by_source", "clear_all"}
StoreFaults ==
    {[op |-> o, exc |-> "sqlite3.OperationalError"] : o \in StoreOps}
    \cup {[op |-> o, exc |-> "TypeError"] : o \in {"add_qa_pair", "add_qa_pairs_batch", "update_embedding"}}

\* texts and feature lists given to an encoder on its own
EncodeTexts == UNION { [1..n -> Words] : n \in 0..MaxTextLen }
FeatureLists == UNION { [1..n -> Words \cup {""}] : n \in 1..MaxTextLen }

\* texts given to the EmbeddingsGenerator and to both SimpleEmbeddings instances
GenTexts == { <<"data">>, <<"your", "encryption">> }

\* what client.messages.create does in EmbeddingsGenerator.generate_embedding:
\* raise, return a response with no content block, or return a reply (an
\* empty text, a feature list)
EmbedServiceBehaviours ==
    { [kind |-> "raise", exc |-> "APIConnectionError"],
      [kind |-> "no_content"],
      [kind |-> "text", text |-> << Piece("", FALSE, FALSE) >>],
      [kind |-> "text", text |-> << Piece("data", FALSE, TRUE), Piece("encryption", TRUE, FALSE) >>] }

\* values of the "confidence" member of a reply
IntVal(n) == [t |-> "int", v |-> n]
ConfidenceValues ==
    { IntVal(69), IntVal(70), IntVal(150), IntVal(-5),
      [t |-> "float", tenths |-> 699], [t |-> "str", s |-> "85"],
      [t |-> "str", s |-> "high"], [t |-> "null"] }

\* the JSON objects of a reply: each member present or not
Pick(present, key, value) == IF present THEN key :> value ELSE [x \in {} |-> x]
ReplyObjects ==
    { Pick(a, "answer", "Yes") @@ Pick(r, "reasoning", "From audit") @@ c @@ n :
        a \in BOOLEAN, r \in BOOLEAN,
        c \in {[x \in {} |-> x]} \cup {"confidence" :> v : v \in ConfidenceValues},
        n \in {[x \in {} |-> x]} \cup {"needs_review" :> b : b \in BOOLEAN} }

FullObject ==
    Pick(TRUE, "answer", "Yes") @@ Pick(TRUE, "reasoning", "From audit")
    @@ ("confidence" :> IntVal(70)) @@ ("needs_review" :> FALSE)

\* reply texts as result_text holds them, after strip(): a bare object, and
\* the other shapes around FullObject
ReplyTexts ==
    { <<LBrace, Members(o), RBrace>> : o \in ReplyObjects }
    \cup { <<LBrace, RBrace>>,
           <<Prose, LBrace, Members(FullObject), RBrace, Prose>>,
           <<LBrace, Members(FullObject), RBrace, Prose>>,
           <<Prose, LBrace, Members(FullObject), RBrace, Prose, LBrace, Prose, RBrace>>,
           <<LBrace, Garbage, RBrace>>,
           <<Prose, LBrace, Garbage, RBrace>>,
           <<Prose, LBrace, Prose>>,
           <<RBrace, Prose, LBrace>>,
           <<Prose>>,
           <<>> }

\* behaviours of client.messages.create: an exception, a response without
\* content blocks, a response whose first block holds a text
ServiceBehaviours ==
    { [kind |-> "raise", exc |-> e] :
        e \in {"APIConnectionError", "AuthenticationError", "RateLimitError"} }
    \cup { [kind |-> "no_content"] }
    \cup { [kind |-> "text", text |-> t] : t \in ReplyTexts }

\* the behaviours tried in a batch
BatchBehaviours ==
    { [kind |-> "raise", exc |-> "RateLimitError"],
      [kind |-> "text", text |-> <<Prose>>],
      [kind |-> "text", text |-> <<LBrace, Members(FullObject), RBrace>>] }

(***************************************************************************)
(* State                                                                   *)
(***************************************************************************)
VARIABLES
    store,    \* the rows of table qa_pairs, in rowid order
    nextId,   \* the id AUTOINCREMENT gives the next row
    call,     \* the operation in progress or just finished, with its result
    issued,   \* the ids the inserts have returned so far, in order
    conns,    \* connections opened by an operation and not closed
    cache,    \* EmbeddingsGenerator._cache, keyed by the text
    simple,   \* the fields of each SimpleEmbeddings instance
    returned  \* the first vector each encoder returned for each text

vars == <<store, nextId, call, issued, conns, cache, simple, returned>>

\* the table and its connections, the encoders
kbVars == <<store, nextId, issued, conns>>
encVars == <<cache, simple>>

Idle == [op |-> "none"]

\* the SimpleEmbeddings instances
Instances == {1, 2}

Init ==
    /\ store = <<>>
    /\ nextId = 1
    /\ call = Idle
    /\ issued = <<>>
    /\ conns = 0
    /\ cache = <<>>
    /\ simple = [i \in Instances |-> [vocab |-> <<>>, idf |-> <<>>]]
    /\ returned = {}

\* an id INTEGER PRIMARY KEY without AUTOINCREMENT would give: one more than
\* the largest id in the table
Autoincrement_MaxRowid(rows, sequence) ==
    IF rows = <<>> THEN 1 ELSE rows[Len(rows)].id + 1

\* cursor.lastrowid under AUTOINCREMENT: one more than the largest id the
\* table ever held, which sqlite_sequence keeps across deletes
Autoincrement(rows, sequence) == sequence

\* the rows of one or more INSERTs appended, each under its AUTOINCREMENT id
RECURSIVE InsertAll(_, _, _)
InsertAll(rows, sequence, qas) ==
    IF qas = <<>> THEN [rows |-> rows, sequence |-> sequence, ids |-> <<>>]
    ELSE LET qa == Head(qas)
             id == Autoincrement(rows, sequence)
             rest == InsertAll(Append(rows, NewRow(id, qa.question, qa.answer, qa.source_file,
                                                   qa.category, qa.embedding)),
                               id + 1, Tail(qas))
         IN  [rest EXCEPT !.ids = <<id>> \o @]

\* the arguments of one insert
QA(question, answer, source_file, category, embedding) ==
    [question |-> question, answer |-> answer, source_file |-> source_file,
     category |-> category, embedding |-> embedding]

\* connect, INSERT, commit, close of add_qa_pair (one row) and of
\* add_qa_pairs_batch (every row under one commit)
Insert(qas, limit) ==
    /\ Len(store) + Len(qas) <= limit
    /\ LET done == InsertAll(store, nextId, qas)
       IN  /\ store' = done.rows
           /\ nextId' = done.sequence
           /\ issued' = issued \o done.ids
    /\ UNCHANGED conns

\* KnowledgeBase.add_qa_pair, while the table holds fewer than limit rows
add_qa_pair(question, answer, source_file, category, embedding, limit) ==
    /\ call = Idle
    /\ Insert(<<QA(question, answer, source_file, category, embedding)>>, limit)
    /\ UNCHANGED <<call, encVars, returned>>

\* index.py add_qa_pair, and upload_knowledge's loop body
ApiAddQaPair(qa, limit) ==
    add_qa_pair(qa.question, qa.answer, qa.source_file, qa.category,
                generate_embedding(qa.question, Dim), limit)

\* KnowledgeBase.search_similar called directly
SearchSimilar(query, top_k) ==
    /\ call = Idle
    /\ call' = [op |-> "search_similar", query |-> query, top_k |-> top_k,
                result |-> search_similar(store, query, top_k)]
    /\ UNCHANGED <<kbVars, encVars, returned>>

\* AnswerGenerator.generate_answer, the service behaving as svc
GenerateAnswer(question, svc) ==
    /\ call = Idle
    /\ call' = [op |-> "generate_answer", question |-> question, svc |-> svc,
                outcome |-> generate_answer(store, question, svc)]
    /\ UNCHANGED <<kbVars, encVars, returned>>

\* fill_questionnaire entered: results = []
FillStart(questions) ==
    /\ call = Idle
    /\ call' = [op |-> "fill_questionnaire", questions |-> questions, pc |-> "loop",
                results |-> <<>>, svcs |-> <<>>, prompts |-> <<>>, exc |-> ""]
    /\ UNCHANGED <<kbVars, encVars, returned>>

\* FillStep answering a question already answered from its earlier result
FillStep_ReuseDuplicate(svc) ==
    /\ call.op = "fill_questionnaire"
    /\ call.pc = "loop"
    /\ Len(call.results) < Len(call.questions)
    /\ LET question == call.questions[Len(call.results) + 1]
           answer == generate_answer(store, question, svc)
           seen == {i \in 1..Len(call.results) : call.results[i].question = question}
       IN  call' = IF seen # {}
                   THEN [call EXCEPT !.results = Append(@, call.results[CHOOSE i \in seen : TRUE]),
                                     !.svcs = Append(@, svc)]
                   ELSE IF answer.kind = "raise"
                   THEN [call EXCEPT !.pc = "raised", !.exc = answer.exc,
                                     !.svcs = Append(@, svc),
                                     !.prompts = @ \o ServicePrompts(store, question)]
                   ELSE [call EXCEPT !.results = Append(@, ResultDict(question, answer.value)),
                                     !.svcs = Append(@, svc),
                                     !.prompts = @ \o ServicePrompts(store, question)]
    /\ UNCHANGED <<kbVars, encVars, returned>>

\* one iteration of fill_questionnaire's loop, the service behaving as svc
FillStep(svc) ==
    /\ call.op = "fill_questionnaire"
    /\ call.pc = "loop"
    /\ Len(call.results) < Len(call.questions)
    /\ LET question == call.questions[Len(call.results) + 1]
           answer == generate_answer(store, question, svc)
       IN  call' = IF answer.kind = "raise"
                   THEN [call EXCEPT !.pc = "raised", !.exc = answer.exc,
                                     !.svcs = Append(@, svc),
                                     !.prompts = @ \o ServicePrompts(store, question)]
                   ELSE [call EXCEPT !.results = Append(@, ResultDict(question, answer.value)),
                                     !.svcs = Append(@, svc),
                                     !.prompts = @ \o ServicePrompts(store, question)]
    /\ UNCHANGED <<kbVars, encVars, returned>>

\* fill_questionnaire's return results
FillReturn ==
    /\ call.op = "fill_questionnaire"
    /\ call.pc = "loop"
    /\ Len(call.results) = Len(call.questions)
    /\ call' = [call EXCEPT !.pc = "done"]
    /\ UNCHANGED <<kbVars, encVars, returned>>

\* KnowledgeBase.add_qa_pair, the caller holding the id returned
AddQaPair(question, answer, source_file, category, embedding) ==
    /\ call = Idle
    /\ nextId <= MaxIds
    /\ Insert(<<QA(question, answer, source_file, category, embedding)>>, MaxStoreRows)
    /\ call' = [op |-> "add_qa_pair",
                qas |-> <<QA(question, answer, source_file, category, embedding)>>,
                outcome |-> Returned(<<Autoincrement(store, nextId)>>)]
    /\ UNCHANGED <<encVars, returned>>

\* qa["question"], qa["answer"] raise KeyError when the key is absent
HasRequiredKeys(qa) == {"question", "answer"} \subseteq DOMAIN qa

\* the values add_qa_pairs_batch inserts for one dict
BatchQA(qa) ==
    QA(qa.question, qa.answer, DictGet(qa, "source_file", ""), DictGet(qa, "category", ""),
       DictGet(qa, "embedding", None))

\* KnowledgeBase.add_qa_pairs_batch: every row under one commit; a dict
\* without "question" or "answer" raises KeyError before commit and close
add_qa_pairs_batch(qa_pairs) ==
    /\ call = Idle
    /\ nextId + Len(qa_pairs) - 1 <= MaxIds
    /\ IF \A i \in 1..Len(qa_pairs) : HasRequiredKeys(qa_pairs[i])
       THEN LET qas == [i \in 1..Len(qa_pairs) |-> BatchQA(qa_pairs[i])]
            IN  /\ Insert(qas, MaxStoreRows)
                /\ call' = [op |-> "add_qa_pairs_batch", qas |-> qas,
                            outcome |-> Returned(InsertAll(store, nextId, qas).ids)]
       ELSE /\ conns < MaxOpen
            /\ conns' = conns + 1
            /\ call' = [op |-> "add_qa_pairs_batch", qas |-> <<>>, outcome |-> Raised("KeyError")]
            /\ UNCHANGED <<store, nextId, issued>>
    /\ UNCHANGED <<encVars, returned>>

\* KnowledgeBase.update_embedding: UPDATE ... WHERE id = qa_id
update_embedding(qa_id, embedding) ==
    /\ call = Idle
    /\ store' = [i \in 1..Len(store) |->
                    IF store[i].id = qa_id
                    THEN [store[i] EXCEPT !.embedding = JsonDumps(embedding)]
                    ELSE store[i]]
    /\ UNCHANGED <<nextId, issued, conns, call, encVars, returned>>

\* KnowledgeBase.delete_by_source: DELETE ... WHERE source_file = ?
delete_by_source(source_file) ==
    /\ call = Idle
    /\ store' = SelectSeq(store, LAMBDA row : row.source_file # source_file)
    /\ UNCHANGED <<nextId, issued, conns, call, encVars, returned>>

\* KnowledgeBase.clear_all: DELETE FROM qa_pairs
clear_all ==
    /\ call = Idle
    /\ store' = <<>>
    /\ UNCHANGED <<nextId, issued, conns, call, encVars, returned>>

\* KnowledgeBase.get_all called directly
GetAll ==
    /\ call = Idle
    /\ call' = [op |-> "get_all", outcome |-> Returned(get_all(store))]
    /\ UNCHANGED <<kbVars, encVars, returned>>

\* str(row[answer_col]).strip(), "nan" read as no answer
AnswerCell(a) == IF a = "nan" THEN "" ELSE a

\* DocumentParser._extract_qa_from_dataframe without extract_questions_only:
\* rows with an empty question are skipped, rows without an answer are left out
RECURSIVE ParseRows(_, _)
ParseRows(cells, source_name) ==
    IF cells = <<>> THEN <<>>
    ELSE LET q == Head(cells).q
             a == AnswerCell(Head(cells).a)
         IN  (IF q # <<>> /\ a # ""
              THEN << [question |-> q, answer |-> a, source_file |-> source_name, category |-> ""] >>
              ELSE <<>>)
             \o ParseRows(Tail(cells), source_name)

\* index.py upload_knowledge: every parsed pair added with its fingerprint;
\* a document without pairs is refused
UploadKnowledge(cells, filename) ==
    /\ call = Idle
    /\ LET qa_pairs == ParseRows(cells, filename)
           qas == [i \in 1..Len(qa_pairs) |->
                      QA(qa_pairs[i].question, qa_pairs[i].answer, qa_pairs[i].source_file,
                         qa_pairs[i].category, generate_embedding(qa_pairs[i].question, Dim))]
       IN  /\ qa_pairs # <<>>
           /\ nextId + Len(qas) - 1 <= MaxIds
           /\ Insert(qas, MaxStoreRows)
    /\ UNCHANGED <<call, encVars, returned>>

\* index.py add_qa_pair while ids are left
PostQaPair(qa) ==
    /\ nextId <= MaxIds
    /\ ApiAddQaPair(qa, MaxStoreRows)

\* a statement or json.dumps raises between sqlite3.connect and conn.close:
\* commit and close are skipped, the exception leaves the operation
StatementRaises(fault) ==
    /\ call = Idle
    /\ conns < MaxOpen
    /\ conns' = conns + 1
    /\ call' = [op |-> fault.op, outcome |-> Raised(fault.exc)]
    /\ UNCHANGED <<store, nextId, issued, encVars, returned>>

\* the interpreter finalises a connection object nothing refers to, at a time
\* of its own choosing
Finalize ==
    /\ conns > 0
    /\ conns' = conns - 1
    /\ UNCHANGED <<store, nextId, issued, call, encVars, returned>>

\* a generate_embedding that keeps the words it saw in self.vocab and counts
\* them into the next vector
SimpleGenerateEmbedding_Stateful(inst, text) ==
    /\ call = Idle
    /\ call' = [op |-> "SimpleEmbeddings.generate_embedding", inst |-> inst, text |-> text,
                result |-> Normalize(AddWords([i \in 1..Dim |-> 0],
                                              Surviving(text) \o simple[inst].vocab, 4, Dim))]
    /\ simple' = [simple EXCEPT ![inst].vocab = Surviving(text)]
    /\ UNCHANGED <<kbVars, cache, returned>>

\* SimpleEmbeddings.generate_embedding called on instance inst
SimpleGenerateEmbedding(inst, text) ==
    /\ call = Idle
    /\ call' = [op |-> "SimpleEmbeddings.generate_embedding", inst |-> inst, text |-> text,
                result |-> generate_embedding(text, Dim)]
    /\ UNCHANGED <<kbVars, encVars, returned>>

\* EmbeddingsGenerator.generate_embedding, the service behaving as svc
GenerateEmbedding(text, svc) ==
    /\ call = Idle
    /\ LET out == GenerateEmbeddingOutcome(cache, text, svc)
       IN  /\ call' = [op |-> "EmbeddingsGenerator.generate_embedding", text |-> text,
                       svc |-> svc, result |-> out.result, called |-> out.called]
           /\ cache' = out.cache
    /\ UNCHANGED <<kbVars, simple, returned>>

\* EmbeddingsGenerator._features_to_vector called on its own
FeaturesToVector(features) ==
    /\ call = Idle
    /\ call' = [op |-> "_features_to_vector", text |-> features,
                result |-> features_to_vector(features, Dim)]
    /\ UNCHANGED <<kbVars, encVars, returned>>

\* EmbeddingsGenerator._simple_embedding called on its own
SimpleEmbedding(text) ==
    /\ call = Idle
    /\ call' = [op |-> "_simple_embedding", text |-> text,
                result |-> simple_embedding(text, Dim)]
    /\ UNCHANGED <<kbVars, encVars, returned>>

\* the encoder operations
EncoderOps == {"SimpleEmbeddings.generate_embedding", "EmbeddingsGenerator.generate_embedding"}

\* the vectors returned so far, with that of the finished call c if it is
\* the first its encoder returned for its text
FirstReturned(seen, c) ==
    IF c.op \in EncoderOps /\ ~\E r \in seen : r.op = c.op /\ r.text = c.text
    THEN seen \cup {[op |-> c.op, text |-> c.text, result |-> c.result]}
    ELSE seen

\* the caller takes the result (or the exception) of the finished call
Return ==
    /\ call.op # "none"
    /\ call.op = "fill_questionnaire" => call.pc # "loop"
    /\ call' = Idle
    /\ returned' = FirstReturned(returned, call)
    /\ UNCHANGED <<kbVars, encVars>>

(***************************************************************************)
(* Specifications                                                          *)
(***************************************************************************)
\* answers generated over a knowledge base filled through the API
Next ==
    \/ \E qa \in QAInputs : ApiAddQaPair(qa, MaxKnowledge)
    \/ add_qa_pair(<<"backup">>, "Weekly", "legacy.docx", "", None, MaxKnowledge)
    \/ \E q \in Texts, svc \in ServiceBehaviours : GenerateAnswer(q, svc)
    \/ Return

Spec == Init /\ [][Next]_vars

\* direct searches over rows added with every kind of embedding argument
NextSearch ==
    \/ \E e \in EmbeddingArgs :
          add_qa_pair(<<"data">>, "Yes, AES-256", "manual", "", e, MaxRows)
    \/ \E q \in Texts, k \in 0..MaxTopK : SearchSimilar(TextEmbedding[q], k)
    \/ Return

SpecSearch == Init /\ [][NextSearch]_vars

\* whole questionnaires filled over a knowledge base filled through the API
BatchTexts == { <<"data">>, <<"what", "is", "your">> }
Questionnaires == UNION { [1..n -> BatchTexts] : n \in 0..MaxBatch }

NextFill ==
    \/ \E qa \in QAInputs : ApiAddQaPair(qa, MaxKnowledge)
    \/ \E qs \in Questionnaires : FillStart(qs)
    \/ \E svc \in BatchBehaviours : FillStep(svc)
    \/ FillReturn
    \/ Return

SpecFill == Init /\ [][NextFill]_vars

\* answers generated over a knowledge base of more records than top_k
PoolInputs ==
    { [question |-> <<"data">>, answer |-> "Yes, AES-256", source_file |-> "audit.xlsx", category |-> ""],
      [question |-> <<"backup">>, answer |-> "Daily", source_file |-> "manual", category |-> ""] }

NextTopK ==
    \/ \E qa \in PoolInputs : ApiAddQaPair(qa, MaxPool)
    \/ \E svc \in BatchBehaviours : GenerateAnswer(<<"data">>, svc)
    \/ Return

SpecTopK == Init /\ [][NextTopK]_vars

\* the table filled, read, updated and emptied through every entry point
NextStore ==
    \/ \E e \in StoreEmbeddingArgs : AddQaPair(<<"data">>, "Yes, AES-256", "audit.xlsx", "", e)
    \/ \E qa_pairs \in Batches : add_qa_pairs_batch(qa_pairs)
    \/ \E qa \in PostedQAs : PostQaPair(qa)
    \/ \E cells \in UploadedCells : UploadKnowledge(cells, "audit.xlsx")
    \/ \E id \in 1..MaxIds, e \in {EmptyList, TextEmbedding[<<"backup">>]} : update_embedding(id, e)
    \/ \E source_file \in {"manual", "audit.xlsx"} : delete_by_source(source_file)
    \/ clear_all
    \/ GetAll
    \/ Return

SpecStore == Init /\ [][NextStore]_vars

\* the operations of the table, each returning or raising
NextFaults ==
    \/ \E e \in {None, TextEmbedding[<<"data">>]} :
          AddQaPair(<<"data">>, "Yes, AES-256", "audit.xlsx", "", e)
    \/ \E qa_pairs \in Batches \cup BadBatches : add_qa_pairs_batch(qa_pairs)
    \/ \E fault \in StoreFaults : StatementRaises(fault)
    \/ delete_by_source("audit.xlsx")
    \/ clear_all
    \/ GetAll
    \/ Finalize
    \/ Return

SpecFaults == Init /\ [][NextFaults]_vars

\* one encoder applied once to one text or feature list
NextEncode ==
    \/ \E t \in EncodeTexts : SimpleGenerateEmbedding(1, t)
    \/ \E f \in FeatureLists : FeaturesToVector(f)
    \/ \E t \in EncodeTexts : SimpleEmbedding(t)

SpecEncode == Init /\ [][NextEncode]_vars

\* calls of the two SimpleEmbeddings instances and of one EmbeddingsGenerator,
\* in any order
NextEmbed ==
    \/ \E inst \in Instances, t \in GenTexts : SimpleGenerateEmbedding(inst, t)
    \/ \E t \in GenTexts, svc \in EmbedServiceBehaviours : GenerateEmbedding(t, svc)
    \/ Return

SpecEmbed == Init /\ [][NextEmbed]_vars

(***************************************************************************)
(* Properties of generate_answer (specification Spec)                      *)
(***************************************************************************)
Generated == call.op = "generate_answer"

\* the candidate list the finished generate_answer call was given
Candidates == ContextPairs(search_similar(store, TextEmbedding[call.question], TopK))

\* the service was called (there was a candidate) and raised
ServiceRaised == Generated /\ Candidates # <<>> /\ call.svc.kind = "raise"

\* the service was called and replied with a text
ServiceReplied == Generated /\ Candidates # <<>> /\ call.svc.kind = "text"

\* the reply has no brace-delimited substring, or what is handed to
\* json.loads is not a JSON object
Unparsable(text) == ParseReply(text).kind = "raise"

\* the outcome carries the first candidate's stored answer, flagged for review
FallbackAnswer(outcome, candidates) ==
    /\ outcome.kind = "return"
    /\ outcome.value.suggested_answer = candidates[1].answer
    /\ outcome.value.needs_review = TRUE

\* its confidence is the integer part of that candidate's similarity
\* percentage and its reasoning names that candidate's source file
FallbackProvenance(outcome, candidates) ==
    /\ outcome.kind = "return"
    /\ outcome.value.confidence = candidates[1].similarity \div 10
    /\ outcome.value.reasoning = "Direct match from: " \o candidates[1].source

\* the first candidate is one of highest similarity
FirstIsBest(candidates) ==
    \A i \in 1..Len(candidates) : candidates[1].similarity >= candidates[i].similarity

\* C1: generate_answer returns a GeneratedAnswer and raises nothing, whatever
\* the generative service does (a reply of any shape, or an exception).
C1_NeverRaises == Generated => call.outcome.kind = "return"

\* C2: with at least one candidate, a service call that raises ends in the
\* fallback result of the best candidate, and the failure is not propagated.
C2_ServiceFailureFallsBack ==
    ServiceRaised =>
        /\ FallbackAnswer(call.outcome, Candidates)
        /\ FallbackProvenance(call.outcome, Candidates)
        /\ FirstIsBest(Candidates)

\* C3: with at least one candidate, a reply that cannot be parsed ends in the
\* fallback result: the first, highest-similarity candidate's answer, the
\* integer part of its similarity percentage, needs_review true, the whole
\* candidate list, and a reasoning naming its source file.
C3_UnparsableReplyFallsBack ==
    (ServiceReplied /\ Unparsable(call.svc.text))
        => /\ FallbackAnswer(call.outcome, Candidates)
           /\ FallbackProvenance(call.outcome, Candidates)
           /\ call.outcome.value.question = call.question
           /\ call.outcome.value.source_questions = Candidates
           /\ FirstIsBest(Candidates)

\* C3 witness: an unparsable reply over two candidates of different answers,
\* sources and similarities, answered from the first.
C3_Witness ==
    /\ ServiceReplied
    /\ Unparsable(call.svc.text)
    /\ Len(Candidates) = 2
    /\ Candidates[1].answer # Candidates[2].answer
    /\ Candidates[1].source # Candidates[2].source
    /\ Candidates[1].similarity > Candidates[2].similarity
    /\ Candidates[2].similarity > 0
    /\ store[1].answer = Candidates[2].answer
    /\ call.outcome.kind = "return"
    /\ call.outcome.value.suggested_answer = Candidates[1].answer

\* the reply parses as a JSON object without an "answer" or a "confidence"
LacksRequiredField(text) ==
    /\ ParseReply(text).kind = "return"
    /\ {"answer", "confidence"} \ DOMAIN ParseReply(text).value # {}

\* C4: a reply that parses as an object lacking answer or confidence takes
\* the fallback path (the best candidate's stored answer, needs_review true).
C4_MissingFieldFallsBack ==
    (ServiceReplied /\ LacksRequiredField(call.svc.text))
        => FallbackAnswer(call.outcome, Candidates)

\* no stored row can be scored against the question: the row has no
\* fingerprint, or its vector or the question's has zero magnitude
NothingToScore ==
    \A i \in 1..Len(store) :
        \/ store[i].embedding = None
        \/ SumSq(store[i].embedding.json.num) = 0
        \/ SumSq(TextEmbedding[call.question].num) = 0

\* C5: when the search yields no candidate, generate_answer returns
\* confidence 0, needs_review true, no source questions, an empty answer and
\* the 'no similar questions found' reasoning.
C5_NoCandidateResult ==
    (Generated /\ NothingToScore) =>
        /\ call.outcome.kind = "return"
        /\ call.outcome.value.question = call.question
        /\ call.outcome.value.confidence = 0
        /\ call.outcome.value.needs_review = TRUE
        /\ call.outcome.value.source_questions = <<>>
        /\ call.outcome.value.suggested_answer = ""
        /\ call.outcome.value.reasoning = "No similar questions found in knowledge base."

\* C5 witness: a question of non-zero magnitude asked over a store that holds
\* a row without fingerprint and a row of zero magnitude, the service failing.
C5_Witness ==
    /\ Generated
    /\ NothingToScore
    /\ SumSq(TextEmbedding[call.question].num) > 0
    /\ \E i \in 1..Len(store) : store[i].embedding = None
    /\ \E i \in 1..Len(store) :
          store[i].embedding # None /\ SumSq(store[i].embedding.json.num) = 0
    /\ call.svc.kind = "raise"
    /\ call.outcome.kind = "return"
    /\ call.outcome.value.confidence = 0

\* C6: every returned GeneratedAnswer has an integer confidence in 0..100.
C6_ConfidenceInRange ==
    (Generated /\ call.outcome.kind = "return")
        => call.outcome.value.confidence \in 0..100

\* the synthesized path: the reply parsed and its confidence was coerced
Synthesized ==
    /\ ServiceReplied
    /\ ParseReply(call.svc.text).kind = "return"
    /\ LET result == ParseReply(call.svc.text).value
       IN  "confidence" \in DOMAIN result => PyInt(result["confidence"]).kind = "return"

\* C7: on the synthesized path, a reply without needs_review gets
\* needs_review = (confidence < 70), the confidence being the coerced integer
\* of the reply's, or 50 when the reply has none.
C7_DefaultNeedsReview ==
    Synthesized =>
        LET result == ParseReply(call.svc.text).value
        IN  "needs_review" \notin DOMAIN result =>
              /\ call.outcome.kind = "return"
              /\ call.outcome.value.confidence =
                    IF "confidence" \in DOMAIN result
                    THEN PyInt(result["confidence"]).value ELSE 50
              /\ call.outcome.value.needs_review = (call.outcome.value.confidence < 70)

\* C7 witness: a reply with confidence 70 and no needs_review, not flagged.
C7_Witness ==
    /\ Synthesized
    /\ LET result == ParseReply(call.svc.text).value
       IN  /\ "needs_review" \notin DOMAIN result
           /\ "confidence" \in DOMAIN result
           /\ result["confidence"] = IntVal(70)
    /\ call.outcome.kind = "return"
    /\ call.outcome.value.confidence = 70
    /\ call.outcome.value.needs_review = FALSE

(***************************************************************************)
(* Properties of fill_questionnaire (specification SpecFill)               *)
(***************************************************************************)
\* the i-th entry of the returned list is the i-th question's own answer
EntryMatches(i) ==
    LET answer == generate_answer(store, call.questions[i], call.svcs[i])
        entry == call.results[i]
    IN  /\ answer.kind = "return"
        /\ entry.question = call.questions[i]
        /\ entry.suggested_answer = answer.value.suggested_answer
        /\ entry.confidence = answer.value.confidence
        /\ entry.needs_review = answer.value.needs_review
        /\ entry.source_questions = answer.value.source_questions
        /\ entry.reasoning = answer.value.reasoning

\* C8: the list fill_questionnaire returns has the length of the input, and
\* its i-th entry holds questions[i] with the fields generate_answer gave for
\* it, duplicates included.
C8_FillPreservesOrder ==
    (call.op = "fill_questionnaire" /\ call.pc = "done") =>
        /\ Len(call.results) = Len(call.questions)
        /\ \A i \in 1..Len(call.questions) : EntryMatches(i)

\* C8 witness: a returned batch of the same question twice, answered
\* differently because the service behaved differently.
C8_Witness ==
    /\ call.op = "fill_questionnaire"
    /\ call.pc = "done"
    /\ Len(call.questions) = 2
    /\ call.questions[1] = call.questions[2]
    /\ call.svcs[1] # call.svcs[2]
    /\ call.results[1].suggested_answer # call.results[2].suggested_answer
    /\ call.results[1].confidence # call.results[2].confidence

(***************************************************************************)
(* Properties of search_similar (specification SpecSearch)                 *)
(***************************************************************************)
Searched == call.op = "search_similar"

\* C9: search_similar returns no record without a stored fingerprint and no
\* record when its vector or the query's has zero magnitude; a query of zero
\* magnitude gets an empty result.
C9_UnscorableOmitted ==
    Searched =>
        /\ \A p \in 1..Len(call.result) :
              \E i \in 1..Len(store) :
                 /\ store[i].id = call.result[p][1].id
                 /\ store[i].embedding # None
                 /\ call.result[p][1].embedding = store[i].embedding.json
                 /\ SumSq(store[i].embedding.json.num) > 0
                 /\ SumSq(call.query.num) > 0
        /\ SumSq(call.query.num) = 0 => call.result = <<>>

\* C9 witness: a search of non-zero magnitude over a row without fingerprint,
\* a row of zero magnitude and a row that scores, which alone is returned.
C9_Witness ==
    /\ Searched
    /\ call.top_k = 3
    /\ Len(store) = 3
    /\ SumSq(call.query.num) > 0
    /\ \E i \in 1..Len(store) : store[i].embedding = None
    /\ \E i \in 1..Len(store) :
          store[i].embedding # None /\ SumSq(store[i].embedding.json.num) = 0
    /\ Len(call.result) = 1

\* the rows that get a score, by place in the table
Scored ==
    {i \in 1..Len(store) :
        /\ store[i].embedding # None
        /\ SumSq(store[i].embedding.json.num) > 0
        /\ SumSq(call.query.num) > 0}

ScoreOf(i) == Similarity(call.query, store[i].embedding.json)

\* row i comes before row j: a higher score, or the same score and stored first
Before(i, j) == ScoreOf(i) > ScoreOf(j) \/ (ScoreOf(i) = ScoreOf(j) /\ i < j)

\* C10: the result is in non-increasing score order, equal scores in storage
\* order, and is the first min(top_k, number of scored rows) entries of that
\* ordering.
C10_SortedStableTopK ==
    Searched =>
        /\ Len(call.result) =
              IF call.top_k < Cardinality(Scored) THEN call.top_k ELSE Cardinality(Scored)
        /\ \A p \in 1..Len(call.result) :
              \E i \in Scored :
                 /\ Cardinality({j \in Scored : Before(j, i)}) = p - 1
                 /\ call.result[p] = <<get_all(store)[i], ScoreOf(i)>>
        /\ \A p \in 1..(Len(call.result) - 1) : call.result[p][2] >= call.result[p + 1][2]

\* C10 witness: three scored rows, the first and the third of equal score
\* above the second, searched with top_k = 2.
C10_Witness ==
    /\ Searched
    /\ call.top_k = 2
    /\ Cardinality(Scored) = 3
    /\ Len(call.result) = 2
    /\ call.result[1][1].id = store[1].id
    /\ call.result[2][1].id = store[3].id
    /\ call.result[1][2] = call.result[2][2]
    /\ ScoreOf(2) < ScoreOf(3)
    /\ ScoreOf(2) > 0

\* the orders the stored pool can be in
PoolOrders(n) ==
    {f \in [1..n -> 1..n] : \A i, j \in 1..n : f[i] = f[j] => i = j}

\* the pool in the order f
Permuted(rows, f) == [i \in 1..Len(rows) |-> rows[f[i]]]

\* the (record, score) pairs of a result, and its scores in order
PairSet(result) == {result[p] : p \in 1..Len(result)}
ScoreSeq(result) == [p \in 1..Len(result) |-> result[p][2]]

\* the search of the call, over the pool in the order f
SearchPermuted(f) == search_similar(Permuted(store, f), call.query, call.top_k)

\* a scored row left out of the result has the score of the last one returned
TieAtCutOff ==
    /\ call.result # <<>>
    /\ \E i \in Scored :
          /\ ScoreOf(i) = call.result[Len(call.result)][2]
          /\ \A p \in 1..Len(call.result) : call.result[p][1].id # store[i].id

\* C11 as claimed: for a fixed query and top_k, the set of (record, score)
\* pairs search_similar returns is the same for every permutation of the
\* stored pool.
C11_SetInvariantUnderPermutation ==
    Searched =>
        \A f \in PoolOrders(Len(store)) :
            PairSet(SearchPermuted(f)) = PairSet(call.result)

\* C11 as amended: for every permutation of the pool the returned scores are
\* the same, in the same order, and the pairs scored above the last returned
\* score are the same; the whole set of pairs is the same unless a row left
\* out ties with the last one returned.
C11_ScoresInvariantUnderPermutation ==
    Searched =>
        \A f \in PoolOrders(Len(store)) :
            LET permuted == SearchPermuted(f)
            IN  /\ ScoreSeq(permuted) = ScoreSeq(call.result)
                /\ {x \in PairSet(permuted) : x[2] > call.result[Len(call.result)][2]}
                     = {x \in PairSet(call.result) : x[2] > call.result[Len(call.result)][2]}
                /\ ~TieAtCutOff => PairSet(permuted) = PairSet(call.result)

\* C11 witness: three scored rows searched with top_k = 2, two of them tied
\* above the third: some order of the pool returns the same pairs in another
\* order.
C11_Witness ==
    /\ Searched
    /\ call.top_k = 2
    /\ Cardinality(Scored) = 3
    /\ ~TieAtCutOff
    /\ call.result[1][2] = call.result[2][2]
    /\ \E f \in PoolOrders(Len(store)) :
          /\ SearchPermuted(f) # call.result
          /\ PairSet(SearchPermuted(f)) = PairSet(call.result)

\* a call of SimpleEmbeddings.generate_embedding, of the EmbeddingsGenerator's
\* generate_embedding, has just finished
SimpleEncoded == call.op = "SimpleEmbeddings.generate_embedding"
GeneratorEncoded == call.op = "EmbeddingsGenerator.generate_embedding"

\* the vectors the encoder of the finished call returned earlier for its text
Earlier == {r \in returned : r.op = call.op /\ r.text = call.text}

\* C12: SimpleEmbeddings.generate_embedding has no hidden state: a call
\* returns the vector every earlier call returned for the same text, on the
\* same instance or on another, whatever calls were made in between, and no
\* call writes an instance's fields.
C12_SimpleEmbeddingsDeterministic ==
    /\ \A inst \in Instances : simple[inst] = [vocab |-> <<>>, idf |-> <<>>]
    /\ SimpleEncoded => \A r \in Earlier : r.result = call.result

\* C12 witness: instance 2 encodes a text some instance encoded before, after
\* the generator was called as well.
C12_Witness ==
    /\ SimpleEncoded
    /\ call.inst = 2
    /\ Earlier # {}
    /\ \E r \in returned : r.op = "EmbeddingsGenerator.generate_embedding"

\* the text has a token that is no stop word and is longer than 2
HasSurvivingToken(text) ==
    \E i \in 1..Len(text) : text[i] \notin stop_words /\ WordLen(text[i]) > 2

\* every bucket of the vector is 0
AllZero(vec) == \A i \in 1..Len(vec.num) : vec.num[i] = 0

\* C13: SimpleEmbeddings.generate_embedding returns the all-zero vector exactly
\* when every token of the text is a stop word or has length <= 2; a text
\* with a surviving token yields a strictly positive bucket, and no bucket is
\* ever negative.
C13_ZeroIffNoSurvivingToken ==
    SimpleEncoded =>
        /\ AllZero(call.result) <=> ~HasSurvivingToken(call.text)
        /\ HasSurvivingToken(call.text) => \E i \in 1..Dim : call.result.num[i] > 0
        /\ \A i \in 1..Dim : call.result.num[i] >= 0
        /\ Len(call.result.num) = Dim

\* C13 witness: a text of a two-letter token and a surviving one is encoded.
C13_Witness ==
    /\ SimpleEncoded
    /\ call.text = <<"ip", "data">>
    /\ ~AllZero(call.result)

\* C14: every non-zero fingerprint of SimpleEmbeddings.generate_embedding,
\* _features_to_vector and _simple_embedding has Euclidean norm 1: the squares
\* of its buckets num[i] / sqrt(den2) sum to 1.
C14_UnitNorm ==
    (call.op \in {"SimpleEmbeddings.generate_embedding", "_features_to_vector", "_simple_embedding"}
        /\ ~AllZero(call.result))
    => SumSq(call.result.num) = call.result.den2

\* C14 witness: _features_to_vector returns a fingerprint with unequal
\* non-zero buckets.
C14_Witness ==
    /\ call.op = "_features_to_vector"
    /\ \E i, j \in 1..Dim : 0 < call.result.num[i] /\ call.result.num[i] < call.result.num[j]

\* C15: once the EmbeddingsGenerator has returned a vector for a text, every
\* later call for that text returns the same vector without calling the
\* service, whether the earlier call succeeded or went through the fallback.
C15_LaterCallsRepeatFirst ==
    GeneratorEncoded =>
        \A r \in Earlier : r.result = call.result /\ ~call.called

\* the service call failed: the client raised, the response had no content
\* block, or the reply was empty
ServiceFailed(svc) ==
    \/ svc.kind \in {"raise", "no_content"}
    \/ svc.kind = "text" /\ Features(svc.text) = <<"">>

\* the raw-word fingerprint: every word token of the text, no filter, bumps
\* the buckets of its first two byte pairs
RawWordFingerprint(text) ==
    Normalize(AddWords([i \in 1..Dim |-> 0], text, 2, Dim))

\* C16: when the service call of EmbeddingsGenerator.generate_embedding fails
\* in any way (exception, empty or malformed response), the call returns the
\* raw-word fallback fingerprint of the text.
C16_FailureFallsBack ==
    (GeneratorEncoded /\ call.called /\ ServiceFailed(call.svc))
    => call.result = RawWordFingerprint(call.text)

\* an insert (add_qa_pair or add_qa_pairs_batch) has just returned its ids
Inserted ==
    /\ call.op \in {"add_qa_pair", "add_qa_pairs_batch"}
    /\ call.outcome.kind = "return"

\* C17: after add_qa_pair or add_qa_pairs_batch, get_all contains, for every
\* record passed, a record with the returned id whose question, answer,
\* source_file, category and embedding equal the inserted values, an absent
\* embedding and an empty or all-zero list included.
C17_InsertReadBack ==
    Inserted =>
        \A k \in 1..Len(call.qas) :
            \E p \in 1..Len(store) :
                LET stored == get_all(store)[p]
                IN  /\ stored.id = call.outcome.value[k]
                    /\ stored.question = call.qas[k].question
                    /\ stored.answer = call.qas[k].answer
                    /\ stored.source_file = call.qas[k].source_file
                    /\ stored.category = call.qas[k].category
                    /\ stored.embedding = call.qas[k].embedding

\* the records search_similar can return from the table as it is
Retrievable ==
    UNION { {x[1] : x \in PairSet(search_similar(store, TextEmbedding[q], Len(store)))} : q \in Texts }

\* C18: in every reachable state of the store, every persisted record that
\* search_similar can return has a non-empty question and a non-empty answer.
C18_RetrievableNonEmpty ==
    \A qa \in Retrievable : qa.question # <<>> /\ qa.answer # ""

\* the ids of the rows of the table
StoredIds(rows) == {rows[i].id : i \in 1..Len(rows)}

\* no id was returned twice, and every row has an id of its own that an
\* insert returned
IdsDistinct ==
    /\ \A i, j \in 1..Len(issued) : i # j => issued[i] # issued[j]
    /\ \A i, j \in 1..Len(store) : i # j => store[i].id # store[j].id
    /\ StoredIds(store) \subseteq {issued[i] : i \in 1..Len(issued)}

\* a step leaves every row it does not delete under its id, with its
\* question, answer, source file and category
KeepsIds ==
    \A i \in 1..Len(store) :
        store[i].id \in StoredIds(store') =>
            \E j \in 1..Len(store') :
                /\ store'[j].id = store[i].id
                /\ store'[j].question = store[i].question
                /\ store'[j].answer = store[i].answer
                /\ store'[j].source_file = store[i].source_file
                /\ store'[j].category = store[i].category

\* C19: over any sequence of add_qa_pair, add_qa_pairs_batch,
\* update_embedding, delete_by_source and clear_all, the ids the inserts
\* return are pairwise distinct, also after a delete or clear_all, and a
\* stored record keeps its id until it is deleted.
C19_IdsNeverReused == [](IdsDistinct) /\ [][KeepsIds]_vars

\* C19 witness: after three ids were returned and rows deleted, the table
\* holds the row of the last id only.
C19_Witness ==
    /\ Len(issued) = 3
    /\ Len(store) = 1
    /\ store[1].id = issued[3]

\* C20: every Knowledge Store operation releases the connection it opened on
\* every path, a raising statement or JSON encoding included: no connection
\* outlives its operation.
C20_ConnectionsReleased == conns = 0

\* the brace-delimited substrings of the reply that are one valid JSON object
\* with the four expected fields, the confidence a number
ValidObjectsIn(text) ==
    { JsonLoadsObject(SubSeq(text, i, j)).value :
        <<i, j>> \in { w \in (1..Len(text)) \X (1..Len(text)) :
                         /\ w[1] < w[2]
                         /\ text[w[1]] = LBrace
                         /\ text[w[2]] = RBrace
                         /\ JsonLoadsObject(SubSeq(text, w[1], w[2])).kind = "return"
                         /\ {"answer", "confidence", "reasoning", "needs_review"}
                               \subseteq DOMAIN JsonLoadsObject(SubSeq(text, w[1], w[2])).value
                         /\ JsonLoadsObject(SubSeq(text, w[1], w[2])).value["confidence"].t
                               \in {"int", "float"} } }

\* C21: whenever the reply contains one valid JSON object with the expected
\* fields, as the whole reply or with prose before or after it (trailing
\* prose after a leading '{', further braces in the prose included),
\* _generate_with_claude answers from that object and not from the fallback.
C21_EmbeddedObjectIsUsed ==
    ServiceReplied =>
        \A obj \in ValidObjectsIn(call.svc.text) :
            /\ call.outcome.kind = "return"
            /\ call.outcome.value.suggested_answer = obj["answer"]
            /\ call.outcome.value.reasoning = obj["reasoning"]
            /\ call.outcome.value.needs_review = obj["needs_review"]

\* C25: no answer generate_answer returns has confidence < 70 together with
\* needs_review false, also when the service supplies both in its reply.
C25_LowConfidenceFlagged ==
    (Generated /\ call.outcome.kind = "return") =>
        ~(call.outcome.value.confidence < 70 /\ call.outcome.value.needs_review = FALSE)

\* the occurrences in the text of tokens that are no stop words and longer
\* than 2, each with the 4 byte pairs of its digest
SurvivingPositions(text) ==
    { <<i, k>> \in (1..Len(text)) \X (1..4) :
        text[i] \notin stop_words /\ WordLen(text[i]) > 2 }

\* C23: in SimpleEmbeddings.generate_embedding the counts of the buckets,
\* before they are normalised, come only from the tokens that are no stop
\* words and longer than 2: every occurrence adds 1 to the bucket of each of
\* its 4 byte pairs modulo the dimension, so the counts sum to 4 times the
\* number of surviving occurrences, and "is" and "your" add nothing.
C23_FourPositionsPerToken ==
    SimpleEncoded =>
        /\ \A b \in 1..Dim :
              call.result.num[b] =
                 Cardinality({ w \in SurvivingPositions(call.text) :
                                 Md5Pairs(call.text[w[1]])[w[2]] % Dim = b - 1 })
        /\ Sum(call.result.num) =
              4 * Cardinality({ i \in 1..Len(call.text) :
                                  call.text[i] \notin stop_words /\ WordLen(call.text[i]) > 2 })

\* C23 witness: a surviving token occurring twice gives counts that sum to 8.
C23_Witness ==
    /\ SimpleEncoded
    /\ call.text = <<"data", "data">>
    /\ Sum(call.result.num) = 8

\* fill_questionnaire is running or has ended
Filling == call.op = "fill_questionnaire"

\* the candidates retrieved for a question from the table as it is
CandidatesOf(question) ==
    ContextPairs(search_similar(store, TextEmbedding[question], TopK))

\* C22 as claimed: fill_questionnaire issues exactly one service call per
\* input question, in input order, each prompt built from that question and
\* its own candidates; no question is answered without its own call.
C22_OneCallPerQuestion ==
    (Filling /\ call.pc = "done") =>
        /\ Len(call.prompts) = Len(call.questions)
        /\ \A i \in 1..Len(call.questions) :
              /\ call.prompts[i].question = call.questions[i]
              /\ call.prompts[i].context = CandidatesOf(call.questions[i])

\* the calls owed to the first n questions: one for each question that has a
\* candidate, built from that question and its own candidates
RECURSIVE OwedPrompts(_)
OwedPrompts(n) ==
    IF n = 0 THEN <<>>
    ELSE OwedPrompts(n - 1)
         \o (IF CandidatesOf(call.questions[n]) = <<>> THEN <<>>
             ELSE << [question |-> call.questions[n],
                      context |-> CandidatesOf(call.questions[n])] >>)

\* C22 as amended: after any number of questions, fill_questionnaire has
\* issued, in input order, exactly one service call for each question that
\* has a candidate, its prompt built from that question and its own
\* candidates only, and no call for a question without candidates, which is
\* answered by the no-candidate result.
C22_OneCallPerQuestionWithCandidates ==
    Filling =>
        /\ call.prompts = OwedPrompts(Len(call.svcs))
        /\ call.pc = "done" => Len(call.svcs) = Len(call.questions)
        /\ \A i \in 1..Len(call.results) :
              CandidatesOf(call.questions[i]) = <<>>
                 => call.results[i].reasoning = "No similar questions found in knowledge base."

\* C22 witness: a returned batch of a question without candidates and a
\* question with two, answered with one call.
C22_Witness ==
    /\ Filling
    /\ call.pc = "done"
    /\ call.questions = << <<"what", "is", "your">>, <<"data">> >>
    /\ Len(call.prompts) = 1
    /\ call.prompts[1].question = <<"data">>
    /\ Len(call.prompts[1].context) = 2

\* what search_similar(query_embedding, top_k=5) returns for the question of
\* the finished generate_answer call
Retrieved == search_similar(store, TextEmbedding[call.question], 5)

\* C24: in every result of generate_answer with at least one candidate, on
\* the synthesized and on the fallback path, source_questions is the list
\* search_similar(query, top_k=5) returns, in its order: at most 5 entries,
\* similarities non-increasing, each a percentage between 0 and 100 (kept in
\* tenths), and the fallback answers from the first entry.
C24_SourceQuestionsAreRetrieved ==
    (Generated /\ call.outcome.kind = "return" /\ Retrieved # <<>>) =>
        LET source_questions == call.outcome.value.source_questions
        IN  /\ Len(source_questions) = Len(Retrieved)
            /\ Len(source_questions) <= 5
            /\ \A i \in 1..Len(source_questions) :
                  /\ source_questions[i].question = Retrieved[i][1].question
                  /\ source_questions[i].answer = Retrieved[i][1].answer
                  /\ source_questions[i].source = Retrieved[i][1].source_file
                  /\ source_questions[i].similarity = RoundDiv(Retrieved[i][2] * 1000, SimScale)
                  /\ source_questions[i].similarity \in 0..1000
            /\ \A i, j \in 1..Len(source_questions) :
                  i < j => source_questions[i].similarity >= source_questions[j].similarity
            /\ (call.svc.kind = "text" /\ Unparsable(call.svc.text)) =>
                  /\ call.outcome.value.suggested_answer = source_questions[1].answer
                  /\ call.outcome.value.reasoning = "Direct match from: " \o source_questions[1].source

\* C24 witness: six scorable records stored, five of them in the fallback
\* result, the first scored above the last.
C24_Witness ==
    /\ Generated
    /\ call.outcome.kind = "return"
    /\ Len(store) = 6
    /\ call.svc.kind = "text"
    /\ Unparsable(call.svc.text)
    /\ Len(call.outcome.value.source_questions) = 5
    /\ call.outcome.value.source_questions[1].similarity
          > call.outcome.value.source_questions[5].similarity
    /\ call.outcome.value.source_questions[5].similarity > 0

=============================================================================
